---- MODULE Spec2Model ----
(***************************************************************************)
(* Model of the mcp-server of web3-valet: the JSON-RPC 2.0 dispatcher      *)
(* (handlers.rs), the agent catalog (agents.rs), the provider clients      *)
(* (gemini.rs) and the startup provider selection (main.rs).               *)
(*                                                                         *)
(* A Rust String is a sequence of tokens; a token is a literal chunk of    *)
(* text.  format!("lit {}", x) is <<"lit ">> \o x, so "the message         *)
(* contains the method name" is a statement about sub-sequences.           *)
(* Option<T> is [some |-> FALSE] or [some |-> TRUE, v |-> x].              *)
(* serde_json::Value is a record tagged by t.                              *)
(***************************************************************************)
EXTENDS Integers, Sequences, FiniteSets, TLC

VARIABLES env, phase, state, tasks, listed

vars == <<env, phase, state, tasks, listed>>

(* ------------------------------ bounds ------------------------------- *)

\* number of request tasks the server runs
NumTasks == 2
\* longest conversation_history a caller sends
MaxHistory == 2
\* largest elapsed time, in ms, a provider call is observed to take
MaxElapsedMs == 1

Tasks == 1..NumTasks

(* ------------------------- Option and strings ------------------------ *)

None == [some |-> FALSE]
Some(x) == [some |-> TRUE, v |-> x]

\* sub is a contiguous part of s (str::contains)
Contains(s, sub) ==
    \E i \in 1..(Len(s) + 1) :
        /\ i + Len(sub) - 1 <= Len(s)
        /\ SubSeq(s, i, i + Len(sub) - 1) = sub

(* -------------------------- serde_json::Value ------------------------ *)

JNull == [t |-> "null"]
JNum(n) == [t |-> "num", n |-> n]
JStr(s) == [t |-> "str", s |-> s]
JArr(a) == [t |-> "arr", a |-> a]
JObj(f) == [t |-> "obj", o |-> f]

HasKey(j, k) == j.t = "obj" /\ k \in DOMAIN j.o

(* ------------------------------ agents.rs ---------------------------- *)

MixtralModel == <<"mixtral-8x7b-32768">>

get_agents ==
    << [id |-> <<"agent_001">>, name |-> <<"General Assistant">>,
        description |-> <<"A helpful general-purpose AI assistant powered by Groq">>,
        capabilities |-> << <<"text">>, <<"conversation">>, <<"reasoning">> >>,
        model |-> MixtralModel,
        system_prompt |-> <<"You are a helpful, friendly, and knowledgeable AI assistant.">>],
       [id |-> <<"agent_002">>, name |-> <<"Web3 Expert">>,
        description |-> <<"Specialized in blockchain, Web3, and cryptocurrency technologies">>,
        capabilities |-> << <<"web3">>, <<"crypto">>, <<"blockchain">>, <<"nft">> >>,
        model |-> MixtralModel,
        system_prompt |-> <<"You are a Web3 and blockchain expert.">>],
       [id |-> <<"agent_003">>, name |-> <<"Voice Specialist">>,
        description |-> <<"Optimized for natural voice conversations and audio interactions">>,
        capabilities |-> << <<"voice">>, <<"audio">>, <<"conversation">> >>,
        model |-> MixtralModel,
        system_prompt |-> <<"You are an AI assistant optimized for voice interactions.">>],
       [id |-> <<"agent_004">>, name |-> <<"Code Assistant">>,
        description |-> <<"Expert in programming, software development, and technical problem-solving">>,
        capabilities |-> << <<"coding">>, <<"debugging">>, <<"technical">> >>,
        model |-> MixtralModel,
        system_prompt |-> <<"You are an expert programming assistant.">>] >>

\* a lookup that starts at the second agent of the list
find_agent_by_id_SkipFirst(agent_id) ==
    LET hits == {i \in DOMAIN get_agents : i > 1 /\ get_agents[i].id = agent_id}
    IN  IF hits = {} THEN None
        ELSE Some(get_agents[CHOOSE i \in hits : \A j \in hits : i <= j])

\* a lookup that falls back to the first agent when the id is unknown
find_agent_by_id_DefaultFirst(agent_id) ==
    LET hits == {i \in DOMAIN get_agents : get_agents[i].id = agent_id}
    IN  IF hits = {} THEN Some(get_agents[1])
        ELSE Some(get_agents[CHOOSE i \in hits : \A j \in hits : i <= j])

\* Iterator::find: the first agent of the list with that id
find_agent_by_id(agent_id) ==
    LET hits == {i \in DOMAIN get_agents : get_agents[i].id = agent_id}
    IN  IF hits = {} THEN None
        ELSE Some(get_agents[CHOOSE i \in hits : \A j \in hits : i <= j])

(* ------------------ serde: decoding ProcessTextParams ---------------- *)

Ok(x) == [ok |-> TRUE, v |-> x]
Err(e) == [ok |-> FALSE, e |-> e]

\* models.rs Message: role and content are required strings; like every
\* derived struct it also decodes from the sequence of its fields
DecodeMessage(j) ==
    IF j.t = "arr" THEN
        IF Len(j.a) < 1 THEN Err(<<"invalid length 0, expected struct Message with 2 elements">>)
        ELSE IF j.a[1].t # "str" THEN Err(<<"invalid type: expected a string">>)
        ELSE IF Len(j.a) < 2 THEN Err(<<"invalid length 1, expected struct Message with 2 elements">>)
        ELSE IF j.a[2].t # "str" THEN Err(<<"invalid type: expected a string">>)
        ELSE IF Len(j.a) > 2 THEN Err(<<"invalid length, expected fewer elements in array">>)
        ELSE Ok([role |-> j.a[1].s, content |-> j.a[2].s])
    ELSE IF j.t # "obj" THEN Err(<<"invalid type: expected struct Message">>)
    ELSE IF HasKey(j, "content") /\ j.o["content"].t # "str"
        THEN Err(<<"invalid type: expected a string">>)
    ELSE IF HasKey(j, "role") /\ j.o["role"].t # "str"
        THEN Err(<<"invalid type: expected a string">>)
    ELSE IF ~HasKey(j, "role") THEN Err(<<"missing field 'role'">>)
    ELSE IF ~HasKey(j, "content") THEN Err(<<"missing field 'content'">>)
    ELSE Ok([role |-> j.o["role"].s, content |-> j.o["content"].s])

\* Option<Vec<Message>>: null is None, an array decodes element by element
DecodeHistory(j) ==
    IF j.t = "null" THEN Ok(None)
    ELSE IF j.t # "arr" THEN Err(<<"invalid type: expected a sequence">>)
    ELSE IF \E i \in DOMAIN j.a : ~DecodeMessage(j.a[i]).ok
        THEN LET bad == CHOOSE i \in DOMAIN j.a :
                          /\ ~DecodeMessage(j.a[i]).ok
                          /\ \A k \in 1..(i - 1) : DecodeMessage(j.a[k]).ok
             IN  Err(DecodeMessage(j.a[bad]).e)
    ELSE Ok(Some([i \in DOMAIN j.a |-> DecodeMessage(j.a[i]).v]))

DecodeString(j) ==
    IF j.t = "str" THEN Ok(j.s) ELSE Err(<<"invalid type: expected a string">>)

\* a decoder that takes a missing user_text for an empty one
DecodeProcessTextParams_DefaultText(p) ==
    IF p.t = "obj" /\ HasKey(p, "agent_id") /\ DecodeString(p.o["agent_id"]).ok
    THEN Ok([agent_id |-> p.o["agent_id"].s,
             user_text |-> IF HasKey(p, "user_text") /\ DecodeString(p.o["user_text"]).ok
                           THEN p.o["user_text"].s ELSE <<>>,
             conversation_history |-> None])
    ELSE Err(<<"invalid type: expected struct ProcessTextParams">>)

\* serde_json::from_value::<ProcessTextParams>: the derived Deserialize takes
\* a map (keys visited in sorted order, missing fields reported afterwards in
\* declaration order, a missing Option field is None) or a sequence of
\* exactly the three fields; every other value is an invalid type.
DecodeProcessTextParams(p) ==
    IF p.t = "obj" THEN
        IF HasKey(p, "agent_id") /\ ~DecodeString(p.o["agent_id"]).ok
            THEN Err(DecodeString(p.o["agent_id"]).e)
        ELSE IF HasKey(p, "conversation_history")
                /\ ~DecodeHistory(p.o["conversation_history"]).ok
            THEN Err(DecodeHistory(p.o["conversation_history"]).e)
        ELSE IF HasKey(p, "user_text") /\ ~DecodeString(p.o["user_text"]).ok
            THEN Err(DecodeString(p.o["user_text"]).e)
        ELSE IF ~HasKey(p, "agent_id") THEN Err(<<"missing field 'agent_id'">>)
        ELSE IF ~HasKey(p, "user_text") THEN Err(<<"missing field 'user_text'">>)
        ELSE Ok([agent_id |-> p.o["agent_id"].s,
                 user_text |-> p.o["user_text"].s,
                 conversation_history |->
                     IF HasKey(p, "conversation_history")
                     THEN DecodeHistory(p.o["conversation_history"]).v
                     ELSE None])
    ELSE IF p.t = "arr" THEN
        IF Len(p.a) < 1
            THEN Err(<<"invalid length 0, expected struct ProcessTextParams with 3 elements">>)
        ELSE IF ~DecodeString(p.a[1]).ok THEN Err(DecodeString(p.a[1]).e)
        ELSE IF Len(p.a) < 2
            THEN Err(<<"invalid length 1, expected struct ProcessTextParams with 3 elements">>)
        ELSE IF ~DecodeString(p.a[2]).ok THEN Err(DecodeString(p.a[2]).e)
        ELSE IF Len(p.a) < 3
            THEN Err(<<"invalid length 2, expected struct ProcessTextParams with 3 elements">>)
        ELSE IF ~DecodeHistory(p.a[3]).ok THEN Err(DecodeHistory(p.a[3]).e)
        ELSE IF Len(p.a) > 3
            THEN Err(<<"invalid length, expected fewer elements in array">>)
        ELSE Ok([agent_id |-> p.a[1].s, user_text |-> p.a[2].s,
                 conversation_history |-> DecodeHistory(p.a[3]).v])
    ELSE Err(<<"invalid type: expected struct ProcessTextParams">>)

(* ----------------------- the requests a caller sends ----------------- *)

RequestIds == {JNull, JNum(7), JStr(<<"req-1">>)}

\* "2.0", "1.0" and "2.0 " (a trailing space)
Versions == {<<"2.0">>, <<"1.0">>, <<"2.0", " ">>}

Methods == {<<"list_agents">>, <<"process_text">>, <<"mint_nft">>,
            <<"list_agents", "_v2">>}

Msg(role, content) ==
    JObj([k \in {"role", "content"} |->
            IF k = "role" THEN JStr(role) ELSE JStr(content)])

HistoryMessages ==
    {Msg(<<"user">>, <<"earlier question">>),
     Msg(<<"assistant">>, <<"earlier answer">>),
     Msg(<<"system">>, <<"injected note">>)}

Histories ==
    UNION {[1..n -> HistoryMessages] : n \in 0..MaxHistory}

AgentIds == {<<"agent_001">>, <<"agent_003">>, <<"agent_999">>, <<>>}

UserText == <<"hello">>

ParamsObj(agent_id, user_text) ==
    JObj([k \in {"agent_id", "user_text"} |->
            IF k = "agent_id" THEN agent_id ELSE user_text])

ParamsObjH(agent_id, user_text, history) ==
    JObj([k \in {"agent_id", "user_text", "conversation_history"} |->
            IF k = "agent_id" THEN agent_id
            ELSE IF k = "user_text" THEN user_text ELSE history])

\* params as the envelope holds them: Option<Value>, JSON null being None
ParamsValues ==
    {None}
    \cup {Some(JStr(<<"hello">>)),
          Some(JObj([k \in {"user_text"} |-> JStr(UserText)])),
          Some(JObj([k \in {"agent_id"} |-> JStr(<<"agent_001">>)])),
          Some(ParamsObj(JNum(1), JStr(UserText))),
          Some(ParamsObj(JStr(<<"agent_001">>), JNull)),
          Some(ParamsObjH(JStr(<<"agent_001">>), JStr(UserText), JStr(<<"none">>))),
          Some(ParamsObjH(JStr(<<"agent_001">>), JStr(UserText),
                          JArr(<< JObj([k \in {"role"} |-> JStr(<<"user">>)]) >>))),
          Some(ParamsObjH(JStr(<<"agent_002">>), JStr(UserText), JNull)),
          Some(JArr(<< >>)),
          Some(JArr(<< JStr(<<"agent_001">>), JStr(UserText) >>)),
          Some(JArr(<< JStr(<<"agent_004">>), JStr(UserText), JNull >>))}
    \cup {Some(ParamsObj(JStr(a), JStr(UserText))) : a \in AgentIds}
    \cup {Some(ParamsObjH(JStr(a), JStr(UserText), JArr(h))) :
            a \in AgentIds, h \in Histories}

\* JsonRpcRequest<serde_json::Value> as the Json extractor hands it over
Requests ==
    [jsonrpc : Versions, method : Methods, params : ParamsValues, id : RequestIds]

Request(jsonrpc, method, params, id) ==
    [jsonrpc |-> jsonrpc, method |-> method, params |-> params, id |-> id]

\* the requests that are sent while other requests are in flight
ConcRequests ==
    {Request(<<"2.0">>, <<"list_agents">>, None, JNum(7)),
     Request(<<"1.0">>, <<"list_agents">>, None, JNull),
     Request(<<"2.0">>, <<"mint_nft">>, None, JStr(<<"req-1">>)),
     Request(<<"2.0">>, <<"process_text">>, None, JNull),
     Request(<<"2.0">>, <<"process_text">>,
             Some(ParamsObj(JStr(<<"agent_999">>), JStr(UserText))), JNum(7)),
     Request(<<"2.0">>, <<"process_text">>,
             Some(ParamsObjH(JStr(<<"agent_001">>), JStr(UserText),
                             JArr(<<Msg(<<"assistant">>, <<"earlier answer">>)>>))),
             JStr(<<"req-1">>))}

(* ------------------------------ responses ---------------------------- *)

JsonRpcError(code, message, data) ==
    [code |-> code, message |-> message, data |-> data]

\* an error response that answers with a null id
ErrorResponse_NullId(id, code, message, data) ==
    [jsonrpc |-> <<"2.0">>, result |-> None,
     error |-> Some(JsonRpcError(code, message, data)), id |-> JNull]

ErrorResponse(id, code, message, data) ==
    [jsonrpc |-> <<"2.0">>, result |-> None,
     error |-> Some(JsonRpcError(code, message, data)), id |-> id]

\* a success response that also fills the error member
ResultResponse_WithError(id, result) ==
    [jsonrpc |-> <<"2.0">>, result |-> Some(result),
     error |-> Some(JsonRpcError(0, <<"ok">>, None)), id |-> id]

ResultResponse(id, result) ==
    [jsonrpc |-> <<"2.0">>, result |-> Some(result), error |-> None, id |-> id]

(* ------------------------------ gemini.rs ---------------------------- *)

GroqModel == <<"llama-3.3-70b-versatile">>
GroqUrl == <<"https://api.groq.com/openai/v1/chat/completions">>
GroqTemperature == "0.7"
GroqMaxTokens == 1024
FallbackReply == <<"Sorry, I couldn't generate a response.">>

\* Value indexing: a missing key, or a value of another type, yields Null
Index(j, k) == IF HasKey(j, k) THEN j.o[k] ELSE JNull
IndexN(j, i) == IF j.t = "arr" /\ i \in DOMAIN j.a THEN j.a[i] ELSE JNull

as_str(j) == IF j.t = "str" THEN Some(j.s) ELSE None
as_u64(j) == IF j.t = "num" /\ j.n >= 0 THEN Some(j.n) ELSE None

RECURSIVE GeminiHistory_UnknownAsUser(_)
\* a loop that sends a message of an unrecognised role as a user message
GeminiHistory_UnknownAsUser(history) ==
    IF history = <<>> THEN <<>>
    ELSE LET msg == Head(history)
             rest == GeminiHistory_UnknownAsUser(Tail(history))
         IN  IF msg.role = <<"assistant">>
                 THEN <<[role |-> <<"model">>, parts |-> <<[text |-> msg.content]>>]>> \o rest
             ELSE <<[role |-> <<"user">>, parts |-> <<[text |-> msg.content]>>]>> \o rest

RECURSIVE GeminiHistory(_)
\* the loop over the history: user stays user, assistant becomes model,
\* a message of any other role is skipped
GeminiHistory(history) ==
    IF history = <<>> THEN <<>>
    ELSE LET msg == Head(history)
             rest == GeminiHistory(Tail(history))
         IN  IF msg.role = <<"user">>
                 THEN <<[role |-> <<"user">>, parts |-> <<[text |-> msg.content]>>]>> \o rest
             ELSE IF msg.role = <<"assistant">>
                 THEN <<[role |-> <<"model">>, parts |-> <<[text |-> msg.content]>>]>> \o rest
             ELSE rest

\* the outbound request of process_with_gemini (use_groq = false)
GeminiOutbound(api_key, agent, user_text, conversation_history) ==
    [provider |-> "gemini",
     url |-> <<"https://generativelanguage.googleapis.com/v1beta/models/">>
               \o agent.model \o <<":generateContent">>,
     auth |-> <<"x-goog-api-key: ">> \o api_key,
     body |-> [contents |->
                  (IF conversation_history.some
                   THEN GeminiHistory(conversation_history.v) ELSE <<>>)
                  \o <<[role |-> <<"user">>, parts |-> <<[text |-> user_text]>>]>>,
               system_instruction |->
                  Some([parts |-> <<[text |-> agent.system_prompt]>>])]]

\* a loop that leaves out the messages whose role is neither user nor assistant
GroqHistory_SkipUnknownRoles(history) ==
    LET kept == SelectSeq(history, LAMBDA m : m.role \in {<<"user">>, <<"assistant">>})
    IN  [i \in DOMAIN kept |-> [role |-> kept[i].role, content |-> kept[i].content]]

GroqHistory(history) ==
    [i \in DOMAIN history |-> [role |-> history[i].role, content |-> history[i].content]]

\* the outbound request of process_with_groq
GroqOutbound(api_key, agent, user_text, conversation_history) ==
    [provider |-> "groq",
     url |-> GroqUrl,
     auth |-> <<"Authorization: Bearer ">> \o api_key,
     body |-> [model |-> GroqModel,
               messages |->
                  <<[role |-> <<"system">>, content |-> agent.system_prompt]>>
                  \o (IF conversation_history.some
                      THEN GroqHistory(conversation_history.v) ELSE <<>>)
                  \o <<[role |-> <<"user">>, content |-> user_text]>>,
               temperature |-> GroqTemperature,
               max_tokens |-> GroqMaxTokens]]

\* a dispatch that ignores the flag and always builds the Gemini request
ProviderOutbound_IgnoreFlag(use_groq, api_key, agent, user_text, conversation_history) ==
    GeminiOutbound(api_key, agent, user_text, conversation_history)

\* process_with_gemini dispatches on use_groq before building anything
ProviderOutbound(use_groq, api_key, agent, user_text, conversation_history) ==
    IF use_groq THEN GroqOutbound(api_key, agent, user_text, conversation_history)
    ELSE GeminiOutbound(api_key, agent, user_text, conversation_history)

ProviderName(use_groq) == IF use_groq THEN <<"Groq">> ELSE <<"Gemini">>

\* reqwest::StatusCode::is_success
is_success(status) == 200 <= status /\ status <= 299

\* Display of a StatusCode
StatusText(status) ==
    IF status = 200 THEN <<"200 OK">>
    ELSE IF status = 299 THEN <<"299 <unknown status code>">>
    ELSE IF status = 300 THEN <<"300 Multiple Choices">>
    ELSE <<"401 Unauthorized">>

\* models.rs GeminiPart / GeminiContent / GeminiCandidate / GeminiUsageMetadata,
\* decoded from JSON objects (no body of the model writes a struct as an array)
DecodeGeminiPart(j) ==
    j.t = "obj" /\ HasKey(j, "text") /\ j.o["text"].t = "str"

DecodeGeminiContent(j) ==
    /\ j.t = "obj"
    /\ HasKey(j, "role") /\ j.o["role"].t = "str"
    /\ HasKey(j, "parts") /\ j.o["parts"].t = "arr"
    /\ \A i \in DOMAIN j.o["parts"].a : DecodeGeminiPart(j.o["parts"].a[i])

DecodeGeminiCandidate(j) ==
    j.t = "obj" /\ HasKey(j, "content") /\ DecodeGeminiContent(j.o["content"])

\* every count is an Option<u32>, under its camelCase name
DecodeGeminiUsage(j) ==
    \/ j.t = "null"
    \/ /\ j.t = "obj"
       /\ \A k \in {"promptTokenCount", "candidatesTokenCount", "totalTokenCount"} :
             HasKey(j, k) => (j.o[k].t = "null" \/ (j.o[k].t = "num" /\ j.o[k].n >= 0))

\* serde_json::from_str::<GeminiResponse> on a body that is JSON
DecodeGeminiResponse(j) ==
    /\ j.t = "obj"
    /\ HasKey(j, "candidates") /\ j.o["candidates"].t = "arr"
    /\ \A i \in DOMAIN j.o["candidates"].a : DecodeGeminiCandidate(j.o["candidates"].a[i])
    /\ (HasKey(j, "usage_metadata") => DecodeGeminiUsage(j.o["usage_metadata"]))

\* candidates.first().and_then(|c| c.content.parts.first()).map(text).unwrap_or_else(..)
GeminiReplyText(j) ==
    LET cands == j.o["candidates"].a
    IN  IF cands = <<>> THEN FallbackReply
        ELSE IF cands[1].o["content"].o["parts"].a = <<>> THEN FallbackReply
        ELSE cands[1].o["content"].o["parts"].a[1].o["text"].s

\* usage_metadata.and_then(|u| u.total_token_count)
GeminiTokens(j) ==
    IF HasKey(j, "usage_metadata") /\ HasKey(j.o["usage_metadata"], "totalTokenCount")
       /\ j.o["usage_metadata"].o["totalTokenCount"].t = "num"
    THEN Some(j.o["usage_metadata"].o["totalTokenCount"].n)
    ELSE None

\* a decoder that takes an empty candidate list for a failure
GeminiResult_EmptyIsError(status, body) ==
    IF ~is_success(status)
        THEN Err(<<"Gemini API error (">> \o StatusText(status) \o <<"): ">> \o body.raw)
    ELSE IF ~body.json.some
        THEN Err(<<"Failed to parse Gemini response: ">> \o <<"expected value">>
                 \o <<". Raw: ">> \o body.raw)
    ELSE IF ~DecodeGeminiResponse(body.json.v)
        THEN Err(<<"Failed to parse Gemini response: ">> \o <<"missing field or invalid type">>
                 \o <<". Raw: ">> \o body.raw)
    ELSE IF body.json.v.o["candidates"].a = <<>>
        THEN Err(<<"No candidates in Gemini response">>)
    ELSE Ok([reply_text |-> GeminiReplyText(body.json.v),
             tokens_used |-> GeminiTokens(body.json.v)])

\* process_with_gemini after the body was read: status check, then decoding
GeminiResult(status, body) ==
    IF ~is_success(status)
        THEN Err(<<"Gemini API error (">> \o StatusText(status) \o <<"): ">> \o body.raw)
    ELSE IF ~body.json.some
        THEN Err(<<"Failed to parse Gemini response: ">> \o <<"expected value">>
                 \o <<". Raw: ">> \o body.raw)
    ELSE IF ~DecodeGeminiResponse(body.json.v)
        THEN Err(<<"Failed to parse Gemini response: ">> \o <<"missing field or invalid type">>
                 \o <<". Raw: ">> \o body.raw)
    ELSE Ok([reply_text |-> GeminiReplyText(body.json.v),
             tokens_used |-> GeminiTokens(body.json.v)])

\* groq_response["choices"][0]["message"]["content"].as_str().unwrap_or(..)
GroqReplyText(j) ==
    LET content == as_str(Index(Index(IndexN(Index(j, "choices"), 1), "message"), "content"))
    IN  IF content.some THEN content.v ELSE FallbackReply

\* groq_response["usage"]["total_tokens"].as_u64().map(|t| t as u32); the
\* counts of the model are far below 2^32, where the cast changes nothing
GroqTokens(j) == as_u64(Index(Index(j, "usage"), "total_tokens"))

\* a variant that decodes the body first and looks at the status only when
\* the body is no JSON
GroqResult_DecodeFirst(status, body) ==
    IF body.json.some
        THEN Ok([reply_text |-> GroqReplyText(body.json.v),
                 tokens_used |-> GroqTokens(body.json.v)])
    ELSE IF ~is_success(status)
        THEN Err(<<"Groq API error (">> \o StatusText(status) \o <<"): ">> \o body.raw)
    ELSE Err(<<"Failed to parse Groq response: ">> \o <<"expected value">>
             \o <<". Raw: ">> \o body.raw)

\* process_with_groq after the body was read: status check, then decoding
GroqResult(status, body) ==
    IF ~is_success(status)
        THEN Err(<<"Groq API error (">> \o StatusText(status) \o <<"): ">> \o body.raw)
    ELSE IF ~body.json.some
        THEN Err(<<"Failed to parse Groq response: ">> \o <<"expected value">>
                 \o <<". Raw: ">> \o body.raw)
    ELSE Ok([reply_text |-> GroqReplyText(body.json.v),
             tokens_used |-> GroqTokens(body.json.v)])

\* client.post(..).send() failed
SendError(use_groq, e) == Err(ProviderName(use_groq) \o <<" API request failed: ">> \o e)

\* response.text() failed
ReadError(use_groq, e) ==
    Err(<<"Failed to read ">> \o ProviderName(use_groq) \o <<" response: ">> \o e)

ProviderResult(use_groq, status, body) ==
    IF use_groq THEN GroqResult(status, body) ELSE GeminiResult(status, body)

(* ------------------- what the provider's server answers -------------- *)

Obj1(k, x) == JObj([f \in {k} |-> x])
Obj2(k1, x1, k2, x2) == JObj([f \in {k1, k2} |-> IF f = k1 THEN x1 ELSE x2])

ReplyText == <<"hi there">>

GroqChoice(message) == Obj1("message", message)
GeminiCand(parts) ==
    Obj1("content", Obj2("role", JStr(<<"model">>), "parts", JArr(parts)))

Bodies ==
    { [raw |-> <<"<html>Bad Gateway</html>">>, json |-> None],
      [raw |-> <<"{}">>, json |-> Some(JObj([f \in {} |-> JNull]))],
      [raw |-> <<"{'error':{'message':'invalid api key'}}">>,
       json |-> Some(Obj1("error", Obj1("message", JStr(<<"invalid api key">>))))],
      [raw |-> <<"{'choices':[{'message':{'content':'hi there'}}],'usage':{'total_tokens':5}}">>,
       json |-> Some(Obj2("choices", JArr(<<GroqChoice(Obj1("content", JStr(ReplyText)))>>),
                          "usage", Obj1("total_tokens", JNum(5))))],
      [raw |-> <<"{'choices':[{'message':{'content':'hi there'}}]}">>,
       json |-> Some(Obj1("choices", JArr(<<GroqChoice(Obj1("content", JStr(ReplyText)))>>)))],
      [raw |-> <<"{'choices':[{'message':{'content':null}}],'usage':{'total_tokens':-1}}">>,
       json |-> Some(Obj2("choices", JArr(<<GroqChoice(Obj1("content", JNull))>>),
                          "usage", Obj1("total_tokens", JNum(-1))))],
      [raw |-> <<"{'choices':[]}">>,
       json |-> Some(Obj1("choices", JArr(<<>>)))],
      [raw |-> <<"{'candidates':[{'content':{'role':'model','parts':[{'text':'hi there'}]}}],'usage_metadata':{'totalTokenCount':5}}">>,
       json |-> Some(Obj2("candidates", JArr(<<GeminiCand(<<Obj1("text", JStr(ReplyText))>>)>>),
                          "usage_metadata", Obj1("totalTokenCount", JNum(5))))],
      [raw |-> <<"{'candidates':[{'content':{'role':'model','parts':[{'text':'hi there'}]}}],'usageMetadata':{'totalTokenCount':5}}">>,
       json |-> Some(Obj2("candidates", JArr(<<GeminiCand(<<Obj1("text", JStr(ReplyText))>>)>>),
                          "usageMetadata", Obj1("totalTokenCount", JNum(5))))],
      [raw |-> <<"{'candidates':[]}">>,
       json |-> Some(Obj1("candidates", JArr(<<>>)))],
      [raw |-> <<"{'candidates':[{'content':{'role':'model','parts':[]}}]}">>,
       json |-> Some(Obj1("candidates", JArr(<<GeminiCand(<<>>)>>)))],
      [raw |-> <<"{'candidates':[{'content':{'parts':[{'text':'hi there'}]}}]}">>,
       json |-> Some(Obj1("candidates",
                          JArr(<<Obj1("content",
                                      Obj1("parts", JArr(<<Obj1("text", JStr(ReplyText))>>)))>>)))] }

Statuses == {200, 299, 300, 401}

\* the bodies that arrive while other requests are in flight: no JSON, a
\* Groq completion with its usage, a Gemini candidate with its usage
ConcBodies ==
    {b \in Bodies :
        \/ ~b.json.some
        \/ HasKey(b.json.v, "usage")
              /\ as_u64(Index(Index(b.json.v, "usage"), "total_tokens")).some
        \/ HasKey(b.json.v, "usage_metadata")}

TransportErrors == {<<"connection refused">>, <<"operation timed out">>}

(* ------------------------------- main.rs ----------------------------- *)

\* GROQ_API_KEY and GEMINI_API_KEY as std::env::var(..).ok() reads them
Envs ==
    [GROQ_API_KEY : {None, Some(<<"gsk-key">>), Some(<<>>)},
     GEMINI_API_KEY : {None, Some(<<"gem-key">>)},
     bind_ok : BOOLEAN]

\* a selection that looks at the fallback credential first
SelectProvider_FallbackFirst(groq_api_key, gemini_api_key) ==
    IF gemini_api_key.some
        THEN Some([gemini_api_key |-> gemini_api_key.v, use_groq |-> FALSE])
    ELSE IF groq_api_key.some
        THEN Some([gemini_api_key |-> groq_api_key.v, use_groq |-> TRUE])
    ELSE None

\* the match on (groq_api_key, gemini_api_key): None is the panic
SelectProvider(groq_api_key, gemini_api_key) ==
    IF groq_api_key.some
        THEN Some([gemini_api_key |-> groq_api_key.v, use_groq |-> TRUE])
    ELSE IF gemini_api_key.some
        THEN Some([gemini_api_key |-> gemini_api_key.v, use_groq |-> FALSE])
    ELSE None

IdleTask ==
    [pc |-> "idle", request |-> None, params |-> None, agent |-> None,
     calls |-> <<>>, status |-> None, body |-> None, transport_error |-> None,
     result |-> None, trace |-> <<>>, response |-> None]

Init ==
    /\ env \in Envs
    /\ phase = "start"
    /\ state = None
    /\ tasks = [t \in Tasks |-> IdleTask]
    /\ listed = {}

\* main up to Arc::new(AppState {..}): credentials read, provider selected
MainSelect ==
    /\ phase = "start"
    /\ LET sel == SelectProvider(env.GROQ_API_KEY, env.GEMINI_API_KEY)
       IN  IF sel.some
           THEN phase' = "configured" /\ state' = sel
           ELSE phase' = "panicked" /\ state' = state
    /\ UNCHANGED <<env, tasks, listed>>

\* main from TcpListener::bind to axum::serve
MainServe ==
    /\ phase = "configured"
    /\ phase' = IF env.bind_ok THEN "serving" ELSE "panicked"
    /\ UNCHANGED <<env, state, tasks, listed>>

(* ----------------------------- handlers.rs --------------------------- *)

Confidence == "0.95"
InternalErrorMessage == <<"Internal error: Gemini API processing failed">>

\* axum hands a parsed envelope to handle_jsonrpc while the other tasks run
ReceiveConcurrent(t) ==
    /\ phase = "serving"
    /\ tasks[t].pc = "idle"
    /\ \E r \in ConcRequests :
          tasks' = [tasks EXCEPT ![t] =
                      [IdleTask EXCEPT !.pc = "handle_jsonrpc", !.request = Some(r)]]
    /\ UNCHANGED <<env, phase, state, listed>>

\* axum hands a parsed envelope to handle_jsonrpc while no other task runs
Receive(t) ==
    /\ phase = "serving"
    /\ \A u \in Tasks : tasks[u].pc = "idle"
    /\ \E r \in Requests :
          tasks' = [tasks EXCEPT ![t] =
                      [IdleTask EXCEPT !.pc = "handle_jsonrpc", !.request = Some(r)]]
    /\ UNCHANGED <<env, phase, state, listed>>

\* a version check that also lets "1.0" through
ValidateVersion_Lenient(t) ==
    /\ tasks[t].pc = "handle_jsonrpc"
    /\ LET request == tasks[t].request.v
           me == [tasks[t] EXCEPT !.trace = Append(@, "validate_version")]
       IN  tasks' = [tasks EXCEPT ![t] =
              IF request.jsonrpc \notin {<<"2.0">>, <<"1.0">>}
              THEN [me EXCEPT !.pc = "done", !.response =
                      Some(ErrorResponse(request.id, -32600,
                             <<"Invalid Request: jsonrpc must be '2.0'">>, None))]
              ELSE [me EXCEPT !.pc = "route"]]
    /\ UNCHANGED <<env, phase, state, listed>>

\* a dispatcher that rejects an unknown method before it looks at the version
ValidateVersion_MethodFirst(t) ==
    /\ tasks[t].pc = "handle_jsonrpc"
    /\ LET request == tasks[t].request.v
           me == [tasks[t] EXCEPT !.trace = Append(@, "validate_version")]
       IN  tasks' = [tasks EXCEPT ![t] =
              IF request.method \notin {<<"list_agents">>, <<"process_text">>}
              THEN [me EXCEPT !.pc = "done", !.response =
                      Some(ErrorResponse(request.id, -32601,
                             <<"Method not found: ">> \o request.method, None))]
              ELSE IF request.jsonrpc # <<"2.0">>
              THEN [me EXCEPT !.pc = "done", !.response =
                      Some(ErrorResponse(request.id, -32600,
                             <<"Invalid Request: jsonrpc must be '2.0'">>, None))]
              ELSE [me EXCEPT !.pc = "route"]]
    /\ UNCHANGED <<env, phase, state, listed>>

\* handle_jsonrpc: the version check
ValidateVersion(t) ==
    /\ tasks[t].pc = "handle_jsonrpc"
    /\ LET request == tasks[t].request.v
           me == [tasks[t] EXCEPT !.trace = Append(@, "validate_version")]
       IN  tasks' = [tasks EXCEPT ![t] =
              IF request.jsonrpc # <<"2.0">>
              THEN [me EXCEPT !.pc = "done", !.response =
                      Some(ErrorResponse(request.id, -32600,
                             <<"Invalid Request: jsonrpc must be '2.0'">>, None))]
              ELSE [me EXCEPT !.pc = "route"]]
    /\ UNCHANGED <<env, phase, state, listed>>

\* a router that matches the method name by its prefix
Route_PrefixMatch(t) ==
    /\ tasks[t].pc = "route"
    /\ LET request == tasks[t].request.v
           me == [tasks[t] EXCEPT !.trace = Append(@, "route")]
       IN  tasks' = [tasks EXCEPT ![t] =
              IF request.method # <<>> /\ Head(request.method) = "list_agents"
                  THEN [me EXCEPT !.pc = "handle_list_agents"]
              ELSE IF request.method # <<>> /\ Head(request.method) = "process_text"
                  THEN [me EXCEPT !.pc = "handle_process_text"]
              ELSE [me EXCEPT !.pc = "done", !.response =
                      Some(ErrorResponse(request.id, -32601,
                             <<"Method not found: ">> \o request.method, None))]]
    /\ UNCHANGED <<env, phase, state, listed>>

\* handle_jsonrpc: the match on the method name
Route(t) ==
    /\ tasks[t].pc = "route"
    /\ LET request == tasks[t].request.v
           me == [tasks[t] EXCEPT !.trace = Append(@, "route")]
       IN  tasks' = [tasks EXCEPT ![t] =
              IF request.method = <<"list_agents">>
                  THEN [me EXCEPT !.pc = "handle_list_agents"]
              ELSE IF request.method = <<"process_text">>
                  THEN [me EXCEPT !.pc = "handle_process_text"]
              ELSE [me EXCEPT !.pc = "done", !.response =
                      Some(ErrorResponse(request.id, -32601,
                             <<"Method not found: ">> \o request.method, None))]]
    /\ UNCHANGED <<env, phase, state, listed>>

\* serde_json::to_value(ListAgentsResult { agents })
ListAgentsValue(agents) == [agents |-> agents]

handle_list_agents(t) ==
    /\ tasks[t].pc = "handle_list_agents"
    /\ LET request == tasks[t].request.v
           agents == get_agents
       IN  /\ tasks' = [tasks EXCEPT ![t] =
                 [@ EXCEPT !.pc = "done", !.trace = Append(@, "handle_list_agents"),
                           !.response =
                     Some(ResultResponse(request.id, ListAgentsValue(agents)))]]
           /\ listed' = listed \cup {agents}
    /\ UNCHANGED <<env, phase, state>>

\* a handler that unwraps the params: absent params end the task without a
\* response
ParseParams_UnwrapParams(t) ==
    /\ tasks[t].pc = "handle_process_text"
    /\ LET request == tasks[t].request.v
           me == [tasks[t] EXCEPT !.trace = Append(@, "handle_process_text")]
           decoded == DecodeProcessTextParams(request.params.v)
       IN  tasks' = [tasks EXCEPT ![t] =
              IF ~request.params.some
                  THEN [me EXCEPT !.pc = "panicked"]
              ELSE IF ~decoded.ok
                  THEN [me EXCEPT !.pc = "done", !.response =
                          Some(ErrorResponse(request.id, -32602,
                                 <<"Invalid params: ">> \o decoded.e, None))]
              ELSE [me EXCEPT !.pc = "find_agent", !.params = Some(decoded.v)]]
    /\ UNCHANGED <<env, phase, state, listed>>

\* handle_process_text: "Parse the parameters"
ParseParams(t) ==
    /\ tasks[t].pc = "handle_process_text"
    /\ LET request == tasks[t].request.v
           me == [tasks[t] EXCEPT !.trace = Append(@, "handle_process_text")]
           decoded == DecodeProcessTextParams(request.params.v)
       IN  tasks' = [tasks EXCEPT ![t] =
              IF ~request.params.some
                  THEN [me EXCEPT !.pc = "done", !.response =
                          Some(ErrorResponse(request.id, -32602,
                                 <<"Invalid params: agent_id and user_text are required">>,
                                 None))]
              ELSE IF ~decoded.ok
                  THEN [me EXCEPT !.pc = "done", !.response =
                          Some(ErrorResponse(request.id, -32602,
                                 <<"Invalid params: ">> \o decoded.e, None))]
              ELSE [me EXCEPT !.pc = "find_agent", !.params = Some(decoded.v)]]
    /\ UNCHANGED <<env, phase, state, listed>>

\* a handler that keeps the decoded params in one slot shared by all
\* requests: the lookup reads the params of the first task that holds any
FindAgent_SharedParams(t) ==
    /\ tasks[t].pc = "find_agent"
    /\ LET request == tasks[t].request.v
           holder == CHOOSE u \in Tasks :
                        /\ tasks[u].params.some
                        /\ \A w \in Tasks : tasks[w].params.some => u <= w
           params == tasks[holder].params.v
           me == [tasks[t] EXCEPT !.trace = Append(@, "find_agent_by_id")]
           found == find_agent_by_id(params.agent_id)
       IN  tasks' = [tasks EXCEPT ![t] =
              IF ~found.some
                  THEN [me EXCEPT !.pc = "done", !.response =
                          Some(ErrorResponse(request.id, -32602,
                                 <<"Agent not found: ">> \o params.agent_id, None))]
              ELSE [me EXCEPT !.pc = "call_provider", !.agent = found]]
    /\ UNCHANGED <<env, phase, state, listed>>

\* handle_process_text: "Find the requested agent"
FindAgent(t) ==
    /\ tasks[t].pc = "find_agent"
    /\ LET request == tasks[t].request.v
           params == tasks[t].params.v
           me == [tasks[t] EXCEPT !.trace = Append(@, "find_agent_by_id")]
           found == find_agent_by_id(params.agent_id)
       IN  tasks' = [tasks EXCEPT ![t] =
              IF ~found.some
                  THEN [me EXCEPT !.pc = "done", !.response =
                          Some(ErrorResponse(request.id, -32602,
                                 <<"Agent not found: ">> \o params.agent_id, None))]
              ELSE [me EXCEPT !.pc = "call_provider", !.agent = found]]
    /\ UNCHANGED <<env, phase, state, listed>>

\* handle_process_text calls process_with_gemini, which builds the outbound
\* request of the active provider and sends it.  The call in handlers.rs
\* passes five arguments and process_with_gemini takes use_groq as a sixth:
\* the model passes AppState.use_groq, the only such flag the handler holds.
CallProvider(t) ==
    /\ tasks[t].pc = "call_provider"
    /\ LET params == tasks[t].params.v
       IN  tasks' = [tasks EXCEPT ![t] =
              [@ EXCEPT !.pc = "await_send",
                        !.trace = Append(@, "process_with_gemini"),
                        !.calls = Append(@,
                            ProviderOutbound(state.v.use_groq, state.v.gemini_api_key,
                                             tasks[t].agent.v, params.user_text,
                                             params.conversation_history))]]
    /\ UNCHANGED <<env, phase, state, listed>>

\* a result that reports zero tokens when the provider reported none
ProcessTextValue_ZeroTokens(agent_id, reply_text, model, tokens_used, processing_time) ==
    [agent_id |-> agent_id,
     reply_text |-> reply_text,
     metadata |-> [model |-> model,
                   tokens_used |-> IF tokens_used.some THEN JNum(tokens_used.v) ELSE JNum(0),
                   processing_time_ms |-> processing_time,
                   confidence |-> Confidence]]

\* serde_json::to_value(ProcessTextResult {..}): an Option that is None
\* serializes as null
ProcessTextValue(agent_id, reply_text, model, tokens_used, processing_time) ==
    [agent_id |-> agent_id,
     reply_text |-> reply_text,
     metadata |-> [model |-> model,
                   tokens_used |-> IF tokens_used.some THEN JNum(tokens_used.v) ELSE JNull,
                   processing_time_ms |-> processing_time,
                   confidence |-> Confidence]]

\* a handler that puts the provider's failure description into the message
FinishProcessText_LeakDetail(t, result, processing_time) ==
    LET request == tasks[t].request.v
        params == tasks[t].params.v
        agent == tasks[t].agent.v
    IN  IF ~result.ok
        THEN [tasks[t] EXCEPT !.pc = "done", !.result = Some(result), !.response =
                Some(ErrorResponse(request.id, -32603,
                                   <<"Internal error: ">> \o result.e,
                                   Some([details |-> result.e])))]
        ELSE [tasks[t] EXCEPT !.pc = "done", !.result = Some(result), !.response =
                Some(ResultResponse(request.id,
                        ProcessTextValue(params.agent_id, result.v.reply_text,
                                         agent.model, result.v.tokens_used,
                                         processing_time)))]

\* a handler that calls the provider a second time after a first failure
FinishProcessText_RetryOnce(t, result, processing_time) ==
    LET request == tasks[t].request.v
        params == tasks[t].params.v
        agent == tasks[t].agent.v
    IN  IF ~result.ok /\ Len(tasks[t].calls) < 2
        THEN [tasks[t] EXCEPT !.pc = "call_provider"]
        ELSE IF ~result.ok
        THEN [tasks[t] EXCEPT !.pc = "done", !.result = Some(result), !.response =
                Some(ErrorResponse(request.id, -32603, InternalErrorMessage,
                                   Some([details |-> result.e])))]
        ELSE [tasks[t] EXCEPT !.pc = "done", !.result = Some(result), !.response =
                Some(ResultResponse(request.id,
                        ProcessTextValue(params.agent_id, result.v.reply_text,
                                         agent.model, result.v.tokens_used,
                                         processing_time)))]

\* handle_process_text from the match on the provider's Result to the end
FinishProcessText(t, result, processing_time) ==
    LET request == tasks[t].request.v
        params == tasks[t].params.v
        agent == tasks[t].agent.v
    IN  IF ~result.ok
        THEN [tasks[t] EXCEPT !.pc = "done", !.result = Some(result), !.response =
                Some(ErrorResponse(request.id, -32603, InternalErrorMessage,
                                   Some([details |-> result.e])))]
        ELSE [tasks[t] EXCEPT !.pc = "done", !.result = Some(result), !.response =
                Some(ResultResponse(request.id,
                        ProcessTextValue(params.agent_id, result.v.reply_text,
                                         agent.model, result.v.tokens_used,
                                         processing_time)))]

\* .send().await fails: no response from the provider
SendFails(t, errors) ==
    /\ tasks[t].pc = "await_send"
    /\ \E e \in errors :
          tasks' = [tasks EXCEPT ![t] =
                      [FinishProcessText(t, SendError(state.v.use_groq, e), 0)
                          EXCEPT !.transport_error = Some(e)]]
    /\ UNCHANGED <<env, phase, state, listed>>

\* .send().await returns a response with its status line
StatusArrives(t, statuses) ==
    /\ tasks[t].pc = "await_send"
    /\ \E status \in statuses :
          tasks' = [tasks EXCEPT ![t] =
                      [@ EXCEPT !.pc = "await_body", !.status = Some(status)]]
    /\ UNCHANGED <<env, phase, state, listed>>

\* response.text().await fails
ReadFails(t, errors) ==
    /\ tasks[t].pc = "await_body"
    /\ \E e \in errors :
          tasks' = [tasks EXCEPT ![t] =
                      [FinishProcessText(t, ReadError(state.v.use_groq, e), 0)
                          EXCEPT !.transport_error = Some(e)]]
    /\ UNCHANGED <<env, phase, state, listed>>

\* response.text().await returns the body; the provider function and the
\* handler run to the end
BodyArrives(t, bodies) ==
    /\ tasks[t].pc = "await_body"
    /\ \E body \in bodies, elapsed \in 0..MaxElapsedMs :
          tasks' = [tasks EXCEPT ![t] =
                      [FinishProcessText(t,
                          ProviderResult(state.v.use_groq, tasks[t].status.v, body),
                          elapsed)
                          EXCEPT !.body = Some(body)]]
    /\ UNCHANGED <<env, phase, state, listed>>

ProviderSendFails(t) == SendFails(t, TransportErrors)
ProviderStatusArrives(t) == StatusArrives(t, Statuses)
ProviderReadFails(t) == ReadFails(t, TransportErrors)
ProviderBodyArrives(t) == BodyArrives(t, Bodies)

\* the same four events with the few outcomes of the concurrent runs
ConcSendFails(t) == SendFails(t, {<<"connection refused">>})
ConcStatusArrives(t) == StatusArrives(t, {200, 401})
ConcReadFails(t) == ReadFails(t, {<<"operation timed out">>})
ConcBodyArrives(t) == BodyArrives(t, ConcBodies)

\* axum writes the response; the task ends
Deliver(t) ==
    /\ tasks[t].pc = "done"
    /\ tasks' = [tasks EXCEPT ![t] = IdleTask]
    /\ UNCHANGED <<env, phase, state, listed>>

Next ==
    \/ MainSelect
    \/ MainServe
    \/ \E t \in Tasks : Receive(t)
    \/ \E t \in Tasks : ValidateVersion(t)
    \/ \E t \in Tasks : Route(t)
    \/ \E t \in Tasks : handle_list_agents(t)
    \/ \E t \in Tasks : ParseParams(t)
    \/ \E t \in Tasks : FindAgent(t)
    \/ \E t \in Tasks : CallProvider(t)
    \/ \E t \in Tasks : ProviderSendFails(t)
    \/ \E t \in Tasks : ProviderStatusArrives(t)
    \/ \E t \in Tasks : ProviderReadFails(t)
    \/ \E t \in Tasks : ProviderBodyArrives(t)
    \/ \E t \in Tasks : Deliver(t)

Spec == Init /\ [][Next]_vars

\* the server with its tasks running concurrently: every task takes its
\* steps independently of the others, in any order
InitConc ==
    /\ env \in {e \in Envs : e.bind_ok /\ e.GROQ_API_KEY # Some(<<>>)
                               /\ (e.GROQ_API_KEY.some \/ e.GEMINI_API_KEY.some)}
    /\ phase = "start"
    /\ state = None
    /\ tasks = [t \in Tasks |-> IdleTask]
    /\ listed = {}

NextConc ==
    \/ MainSelect
    \/ MainServe
    \/ \E t \in Tasks : ReceiveConcurrent(t)
    \/ \E t \in Tasks : ValidateVersion(t)
    \/ \E t \in Tasks : Route(t)
    \/ \E t \in Tasks : handle_list_agents(t)
    \/ \E t \in Tasks : ParseParams(t)
    \/ \E t \in Tasks : FindAgent(t)
    \/ \E t \in Tasks : CallProvider(t)
    \/ \E t \in Tasks : ConcSendFails(t)
    \/ \E t \in Tasks : ConcStatusArrives(t)
    \/ \E t \in Tasks : ConcReadFails(t)
    \/ \E t \in Tasks : ConcBodyArrives(t)
    \/ \E t \in Tasks : Deliver(t)

SpecConc == InitConc /\ [][NextConc]_vars

\* what the runtime guarantees: a task that can take a handler step takes
\* it, an outbound call returns or fails, and a finished response is written
HandlerStep(t) ==
    \/ ValidateVersion(t)
    \/ Route(t)
    \/ handle_list_agents(t)
    \/ ParseParams(t)
    \/ FindAgent(t)
    \/ CallProvider(t)

ProviderReturns(t) ==
    \/ ProviderSendFails(t)
    \/ ProviderStatusArrives(t)
    \/ ProviderReadFails(t)
    \/ ProviderBodyArrives(t)

Fairness ==
    \A t \in Tasks :
        /\ WF_vars(HandlerStep(t))
        /\ WF_vars(ProviderReturns(t))
        /\ WF_vars(Deliver(t))

\* the params of the requests whose progress is followed: every shape of
\* ParamsValues, with one history for each agent id instead of all of them
LiveParams ==
    {p \in ParamsValues :
        (p.some /\ p.v.t = "obj" /\ HasKey(p.v, "conversation_history")
                /\ p.v.o["conversation_history"].t = "arr")
            => Len(p.v.o["conversation_history"].a) = 1
               /\ p.v.o["conversation_history"].a[1] # Msg(<<"user">>, <<"earlier question">>)}

LiveRequests ==
    [jsonrpc : Versions, method : Methods, params : LiveParams, id : RequestIds]

\* axum hands a parsed envelope to handle_jsonrpc while no other task runs
ReceiveLive(t) ==
    /\ phase = "serving"
    /\ \A u \in Tasks : tasks[u].pc = "idle"
    /\ \E r \in LiveRequests :
          tasks' = [tasks EXCEPT ![t] =
                      [IdleTask EXCEPT !.pc = "handle_jsonrpc", !.request = Some(r)]]
    /\ UNCHANGED <<env, phase, state, listed>>

NextLive ==
    \/ MainSelect
    \/ MainServe
    \/ \E t \in Tasks : ReceiveLive(t)
    \/ \E t \in Tasks : ValidateVersion(t)
    \/ \E t \in Tasks : Route(t)
    \/ \E t \in Tasks : handle_list_agents(t)
    \/ \E t \in Tasks : ParseParams(t)
    \/ \E t \in Tasks : FindAgent(t)
    \/ \E t \in Tasks : CallProvider(t)
    \/ \E t \in Tasks : ProviderSendFails(t)
    \/ \E t \in Tasks : ProviderStatusArrives(t)
    \/ \E t \in Tasks : ProviderReadFails(t)
    \/ \E t \in Tasks : ProviderBodyArrives(t)
    \/ \E t \in Tasks : Deliver(t)

SpecLive == Init /\ [][NextLive]_vars /\ Fairness

(* ------------------------------ properties --------------------------- *)

Responded(t) == tasks[t].response.some
Req(t) == tasks[t].request.v
Resp(t) == tasks[t].response.v

\* the handler step was executed for the request of task t
Called(t, step) == \E i \in DOMAIN tasks[t].trace : tasks[t].trace[i] = step

IsError(resp, code) ==
    /\ resp.error.some
    /\ resp.error.v.code = code
    /\ ~resp.result.some

\* C1: whatever the method, the id shape and the outcome, the id of the
\* response is the id of the request.
C1_IdRoundTrip ==
    \A t \in Tasks : Responded(t) => Resp(t).id = Req(t).id

\* a process_text success answered to a request with a string id
C1_Witness ==
    \E t \in Tasks :
        /\ Responded(t)
        /\ Req(t).id = JStr(<<"req-1">>)
        /\ Req(t).method = <<"process_text">>
        /\ Resp(t).result.some

\* C2: every response has exactly one of result and error.
C2_ExactlyOneOfResultError ==
    \A t \in Tasks :
        Responded(t) =>
            \/ Resp(t).result.some /\ ~Resp(t).error.some
            \/ ~Resp(t).result.some /\ Resp(t).error.some

\* a list_agents success: a result and no error
C2_Witness ==
    \E t \in Tasks :
        /\ Responded(t)
        /\ Called(t, "handle_list_agents")
        /\ Resp(t).result.some

\* C3: an envelope whose jsonrpc is not exactly "2.0" is answered with
\* error -32600, no result and the request's id, whatever its method and
\* params.
C3_BadVersionIsInvalidRequest ==
    \A t \in Tasks :
        (Responded(t) /\ Req(t).jsonrpc # <<"2.0">>) =>
            /\ IsError(Resp(t), -32600)
            /\ Resp(t).id = Req(t).id

\* version "1.0" on an otherwise valid process_text call has been answered
C3_Witness ==
    \E t \in Tasks :
        /\ Responded(t)
        /\ Req(t).jsonrpc = <<"1.0">>
        /\ Req(t).method = <<"process_text">>
        /\ Req(t).params.some
        /\ DecodeProcessTextParams(Req(t).params.v).ok
        /\ Req(t).id = JNum(7)

KnownMethods == {<<"list_agents">>, <<"process_text">>}

\* C4 as stated: every envelope with an unknown method is answered with
\* error -32601 and a message that contains the method name.
C4_Original ==
    \A t \in Tasks :
        (Responded(t) /\ Req(t).method \notin KnownMethods) =>
            /\ IsError(Resp(t), -32601)
            /\ Contains(Resp(t).error.v.message, Req(t).method)

\* C4 amended: every envelope with jsonrpc exactly "2.0" and an unknown
\* method is answered with error -32601 and a message that contains the
\* method name.
C4_UnknownMethod ==
    \A t \in Tasks :
        (Responded(t) /\ Req(t).jsonrpc = <<"2.0">>
                      /\ Req(t).method \notin KnownMethods) =>
            /\ IsError(Resp(t), -32601)
            /\ Contains(Resp(t).error.v.message, Req(t).method)

\* "list_agents_v2" with version "2.0" has been answered
C4_Witness ==
    \E t \in Tasks :
        /\ Responded(t)
        /\ Req(t).jsonrpc = <<"2.0">>
        /\ Req(t).method = <<"list_agents", "_v2">>

\* the params object lacks a required member
LacksRequired(p) ==
    p.t = "obj" /\ (~HasKey(p, "user_text") \/ ~HasKey(p, "agent_id"))

\* C5: a process_text call whose params are absent or do not decode into
\* ProcessTextParams (user_text or agent_id missing, for example) is
\* answered with error -32602 and no result.
C5_InvalidParams ==
    \A t \in Tasks :
        (Responded(t) /\ Called(t, "handle_process_text")) =>
            /\ ~Req(t).params.some => IsError(Resp(t), -32602)
            /\ (Req(t).params.some /\ ~DecodeProcessTextParams(Req(t).params.v).ok)
                  => IsError(Resp(t), -32602)
            /\ (Req(t).params.some /\ LacksRequired(Req(t).params.v))
                  => IsError(Resp(t), -32602)

\* a process_text call without user_text has been answered
C5_Witness ==
    \E t \in Tasks :
        /\ Responded(t)
        /\ Called(t, "handle_process_text")
        /\ Req(t).params.some
        /\ Req(t).params.v.t = "obj"
        /\ HasKey(Req(t).params.v, "agent_id")
        /\ ~HasKey(Req(t).params.v, "user_text")

\* the agent_id a decodable params value asks for
RequestedAgentId(p) == IF p.t = "obj" THEN p.o["agent_id"].s ELSE p.a[1].s

InCatalog(id) == \E i \in DOMAIN get_agents : get_agents[i].id = id

Decodable(t) ==
    Req(t).params.some /\ DecodeProcessTextParams(Req(t).params.v).ok

\* C6: a process_text call whose params decode but whose agent_id is the id
\* of no catalog agent is answered with error -32602 and a message that
\* names the missing id.
C6_UnknownAgent ==
    \A t \in Tasks :
        (/\ Responded(t)
         /\ Called(t, "handle_process_text")
         /\ Decodable(t)
         /\ ~InCatalog(RequestedAgentId(Req(t).params.v))) =>
            /\ IsError(Resp(t), -32602)
            /\ Contains(Resp(t).error.v.message,
                        <<"Agent not found: ">> \o RequestedAgentId(Req(t).params.v))

\* a process_text call for agent_999 has been answered
C6_Witness ==
    \E t \in Tasks :
        /\ Responded(t)
        /\ Called(t, "handle_process_text")
        /\ Decodable(t)
        /\ RequestedAgentId(Req(t).params.v) = <<"agent_999">>

\* the provider call of task t is over
ProviderReturned(t) == Responded(t) /\ tasks[t].result.some

\* what the network did to the provider call of task t: no response, a
\* status outside 2xx, or a body that is no JSON at all
NetworkFailure(t) ==
    \/ tasks[t].transport_error.some
    \/ /\ tasks[t].body.some
       /\ \/ tasks[t].status.v < 200
          \/ tasks[t].status.v > 299
          \/ ~tasks[t].body.v.json.some

Tokens(str) == {str[i] : i \in DOMAIN str}

\* C7: a valid process_text call whose provider call fails (no response, a
\* status outside 2xx, an undecodable body, or any other Err of the
\* provider) is answered with error -32603, the one fixed message, which
\* holds no part of the failure description, and data.details equal to the
\* provider's non-empty failure description.
C7_ProviderFailure ==
    \A t \in Tasks :
        (ProviderReturned(t) /\ (NetworkFailure(t) \/ ~tasks[t].result.v.ok)) =>
            /\ ~tasks[t].result.v.ok
            /\ IsError(Resp(t), -32603)
            /\ Resp(t).error.v.message = <<"Internal error: Gemini API processing failed">>
            /\ Tokens(Resp(t).error.v.message) \cap Tokens(tasks[t].result.v.e) = {}
            /\ Resp(t).error.v.data = Some([details |-> tasks[t].result.v.e])
            /\ Len(tasks[t].result.v.e) > 0

\* the Primary provider answered 401 with an error body
C7_Witness ==
    \E t \in Tasks :
        /\ ProviderReturned(t)
        /\ state.v.use_groq
        /\ tasks[t].status = Some(401)
        /\ tasks[t].body.some
        /\ tasks[t].body.v.json.some
        /\ IsError(Resp(t), -32603)

CatalogModel(id) ==
    get_agents[CHOOSE i \in DOMAIN get_agents : get_agents[i].id = id].model

\* C8: a valid process_text call on a known agent whose provider call
\* returns (reply, tokens) is answered with a result holding the requested
\* agent id, the reply, the token count (null when the provider reported
\* none) and the agent's catalog model, under either provider variant.
C8_SuccessResult ==
    \A t \in Tasks :
        (ProviderReturned(t) /\ tasks[t].result.v.ok) =>
            LET id == RequestedAgentId(Req(t).params.v)
                out == tasks[t].result.v.v
            IN  /\ Resp(t).result.some
                /\ ~Resp(t).error.some
                /\ Resp(t).result.v.agent_id = id
                /\ Resp(t).result.v.reply_text = out.reply_text
                /\ out.tokens_used.some =>
                      Resp(t).result.v.metadata.tokens_used = JNum(out.tokens_used.v)
                /\ ~out.tokens_used.some =>
                      Resp(t).result.v.metadata.tokens_used = JNull
                /\ InCatalog(id)
                /\ Resp(t).result.v.metadata.model = CatalogModel(id)

\* the Primary provider returned ("hi there", 5) for agent_001
C8_Witness ==
    \E t \in Tasks :
        /\ ProviderReturned(t)
        /\ state.v.use_groq
        /\ tasks[t].result.v.ok
        /\ tasks[t].result.v.v = [reply_text |-> ReplyText, tokens_used |-> Some(5)]
        /\ RequestedAgentId(Req(t).params.v) = <<"agent_001">>
        /\ Resp(t).result.some

\* C9: list_agents, called any number of times while other requests are in
\* flight, always succeeds with one and the same non-empty list, in the same order
\* and without two agents of one id, and find_agent_by_id(x) returns an
\* agent exactly when x is the id of an agent of that list.
C9_StableCatalog ==
    /\ Cardinality(listed) <= 1
    /\ \A t \in Tasks :
          (Responded(t) /\ Called(t, "handle_list_agents")) =>
              /\ Resp(t).result.some
              /\ ~Resp(t).error.some
              /\ Resp(t).result.v.agents \in listed
    /\ \A L \in listed :
          /\ Len(L) > 0
          /\ \A i, j \in DOMAIN L : L[i].id = L[j].id => i = j
          /\ \A t \in Tasks :
                Called(t, "find_agent_by_id") =>
                    /\ tasks[t].agent.some <=>
                          \E i \in DOMAIN L : L[i].id = tasks[t].params.v.agent_id
                    /\ tasks[t].agent.some =>
                          \E i \in DOMAIN L :
                              /\ L[i] = tasks[t].agent.v
                              /\ L[i].id = tasks[t].params.v.agent_id

\* a list_agents call has been answered while a process_text call that
\* found agent_001 waits for its provider
C9_Witness ==
    \E t, u \in Tasks :
        /\ t # u
        /\ Responded(t)
        /\ Called(t, "handle_list_agents")
        /\ tasks[u].pc = "await_send"
        /\ Called(u, "find_agent_by_id")
        /\ tasks[u].params.v.agent_id = <<"agent_001">>
        /\ tasks[u].agent.some

Started == phase \in {"configured", "serving"}

\* C10: the provider is selected at startup by priority: Primary whenever
\* the primary credential is configured, the fallback credential being
\* configured or not; Fallback only when the primary credential is absent
\* and the fallback one present; with neither the process does not start
\* and serves no request.
C10_ProviderSelection ==
    /\ (env.GROQ_API_KEY.some /\ phase # "start") =>
          state.some /\ state.v.use_groq
    /\ (~env.GROQ_API_KEY.some /\ env.GEMINI_API_KEY.some /\ phase # "start") =>
          state.some /\ ~state.v.use_groq
    /\ (state.some /\ ~state.v.use_groq) =>
          ~env.GROQ_API_KEY.some /\ env.GEMINI_API_KEY.some
    /\ (~env.GROQ_API_KEY.some /\ ~env.GEMINI_API_KEY.some) =>
          /\ ~Started
          /\ ~state.some
          /\ \A t \in Tasks : tasks[t].pc = "idle"
    /\ Started => state.some
    /\ (phase = "panicked" /\ env.bind_ok) =>
          ~env.GROQ_API_KEY.some /\ ~env.GEMINI_API_KEY.some

\* both credentials configured: the server serves with the Primary provider
C10_Witness ==
    /\ phase = "serving"
    /\ env.GROQ_API_KEY.some
    /\ env.GEMINI_API_KEY.some
    /\ state.v.use_groq
    /\ \E t \in Tasks : Responded(t)

\* the variant and the credential the environment selects at startup
SelectedVariant == IF env.GROQ_API_KEY.some THEN "groq" ELSE "gemini"
SelectedAuth ==
    IF env.GROQ_API_KEY.some
    THEN <<"Authorization: Bearer ">> \o env.GROQ_API_KEY.v
    ELSE <<"x-goog-api-key: ">> \o env.GEMINI_API_KEY.v

CallsOf(t) == {tasks[t].calls[i] : i \in DOMAIN tasks[t].calls}

Answered2xx(t) ==
    /\ ProviderReturned(t)
    /\ tasks[t].body.some
    /\ tasks[t].status.v >= 200
    /\ tasks[t].status.v <= 299

\* the body is JSON and the first completion choice holds no text content
NoTextContent(b) ==
    /\ b.json.some
    /\ LET j == b.json.v
       IN  \/ ~HasKey(j, "choices")
           \/ j.o["choices"].t # "arr"
           \/ j.o["choices"].a = <<>>
           \/ ~HasKey(j.o["choices"].a[1], "message")
           \/ ~HasKey(j.o["choices"].a[1].o["message"], "content")
           \/ j.o["choices"].a[1].o["message"].o["content"].t # "str"

\* C12 as stated: in the Primary provider a 2xx body that is JSON but has no
\* text content in the first choice's message is a decode failure, and the
\* process_text response is the -32603 error.
C12_MissingContentIsError ==
    \A t \in Tasks :
        (Answered2xx(t) /\ state.v.use_groq /\ NoTextContent(tasks[t].body.v)) =>
            /\ ~tasks[t].result.v.ok
            /\ IsError(Resp(t), -32603)

\* the body is JSON with an empty candidate list
EmptyCandidates(b) ==
    /\ b.json.some
    /\ HasKey(b.json.v, "candidates")
    /\ b.json.v.o["candidates"] = JArr(<<>>)

\* the body is no JSON, has no candidate list, or a candidate without the
\* role its content requires
NotGeminiSchema(b) ==
    \/ ~b.json.some
    \/ ~HasKey(b.json.v, "candidates")
    \/ /\ b.json.v.o["candidates"].t = "arr"
       /\ \E i \in DOMAIN b.json.v.o["candidates"].a :
             ~HasKey(Index(b.json.v.o["candidates"].a[i], "content"), "role")

StatusCodeText(status) ==
    IF status = 300 THEN "300 Multiple Choices"
    ELSE IF status = 401 THEN "401 Unauthorized"
    ELSE "other"

\* C14: in both variants a status outside 2xx yields a provider error that
\* carries the status code and the raw body, whatever the body holds, a
\* valid completion included: the error is the status error and not a parse
\* error, no reply text is extracted, and the response is the -32603 error.
C14_Non2xxIsError ==
    \A t \in Tasks :
        (/\ ProviderReturned(t)
         /\ tasks[t].body.some
         /\ (tasks[t].status.v < 200 \/ tasks[t].status.v > 299)) =>
            LET r == tasks[t].result.v
                name == IF state.v.use_groq THEN "Groq API error (" ELSE "Gemini API error ("
            IN  /\ ~r.ok
                /\ r.e = <<name, StatusCodeText(tasks[t].status.v), "): ">>
                           \o tasks[t].body.v.raw
                /\ IsError(Resp(t), -32603)
                /\ Resp(t).error.v.data = Some([details |-> r.e])

\* the Primary provider answered 401 with a body that is a valid completion
C14_Witness ==
    \E t \in Tasks :
        /\ ProviderReturned(t)
        /\ state.v.use_groq
        /\ tasks[t].status = Some(401)
        /\ tasks[t].body.some
        /\ tasks[t].body.v.json.some
        /\ GroqReplyText(tasks[t].body.v.json.v) = ReplyText
        /\ ~tasks[t].result.v.ok

\* C15: every request handed to handle_jsonrpc is eventually answered,
\* given that its provider call, if any, returns or fails; the answer is a
\* JSON-RPC response with exactly one of result and error, it exists exactly
\* when the handler has returned, and once produced it is not replaced by
\* another before it is written out.
C15_EveryRequestAnswered ==
    /\ \A t \in Tasks : (tasks[t].pc = "handle_jsonrpc") ~> Responded(t)
    /\ [](\A t \in Tasks :
            /\ Responded(t) <=> tasks[t].pc = "done"
            /\ Responded(t) =>
                  /\ Resp(t).jsonrpc = <<"2.0">>
                  /\ Resp(t).result.some # Resp(t).error.some)
    /\ [][\A t \in Tasks :
            Responded(t) => (tasks'[t] = tasks[t] \/ tasks'[t] = IdleTask)]_vars

\* a request whose provider call failed in transport has been answered
C15_Witness ==
    \E t \in Tasks :
        /\ Responded(t)
        /\ tasks[t].transport_error.some
        /\ Len(tasks[t].calls) = 1

\* the request of task t passes every check that precedes the provider call
ValidProcessText(t) ==
    /\ Req(t).jsonrpc = <<"2.0">>
    /\ Req(t).method = <<"process_text">>
    /\ Decodable(t)
    /\ InCatalog(RequestedAgentId(Req(t).params.v))

\* C16: a request makes exactly one outbound provider call when it is a
\* process_text request with version "2.0", decodable params and a known
\* agent, and none otherwise; no request ever makes a second call, a failed
\* call included.
C16_OneProviderCall ==
    \A t \in Tasks :
        /\ Len(tasks[t].calls) <= 1
        /\ Responded(t) =>
              Len(tasks[t].calls) = IF ValidProcessText(t) THEN 1 ELSE 0
        /\ (Responded(t) /\ tasks[t].result.some /\ ~tasks[t].result.v.ok) =>
              Len(tasks[t].calls) = 1

\* a provider call answered 200 with a body that is no JSON has failed and
\* the request has been answered after that one call
C16_Witness ==
    \E t \in Tasks :
        /\ Responded(t)
        /\ ValidProcessText(t)
        /\ tasks[t].status = Some(200)
        /\ tasks[t].body.some
        /\ ~tasks[t].body.v.json.some
        /\ ~tasks[t].result.v.ok
        /\ Len(tasks[t].calls) = 1

\* the outcome of task t's own provider call, from what the network did to it
OwnOutcome(t) ==
    IF tasks[t].transport_error.some
    THEN Err((IF tasks[t].status.some
              THEN <<"Failed to read ">> \o ProviderName(state.v.use_groq) \o <<" response: ">>
              ELSE ProviderName(state.v.use_groq) \o <<" API request failed: ">>)
             \o tasks[t].transport_error.v)
    ELSE IF ~tasks[t].body.some THEN Err(<<"no provider call was made">>)
    ELSE ProviderResult(state.v.use_groq, tasks[t].status.v, tasks[t].body.v)

\* the response of the request of task t served alone: a function of its
\* envelope, the catalog, the selected provider and its own call's outcome
AloneResponse(t) ==
    LET r == Req(t)
        err(code, message, data) ==
            [jsonrpc |-> <<"2.0">>, result |-> None, id |-> r.id,
             error |-> Some([code |-> code, message |-> message, data |-> data])]
        ok(value) ==
            [jsonrpc |-> <<"2.0">>, result |-> Some(value), error |-> None, id |-> r.id]
    IN  IF r.jsonrpc # <<"2.0">>
            THEN err(-32600, <<"Invalid Request: jsonrpc must be '2.0'">>, None)
        ELSE IF r.method = <<"list_agents">> THEN ok([agents |-> get_agents])
        ELSE IF r.method # <<"process_text">>
            THEN err(-32601, <<"Method not found: ">> \o r.method, None)
        ELSE IF ~r.params.some
            THEN err(-32602, <<"Invalid params: agent_id and user_text are required">>, None)
        ELSE IF ~DecodeProcessTextParams(r.params.v).ok
            THEN err(-32602, <<"Invalid params: ">> \o DecodeProcessTextParams(r.params.v).e, None)
        ELSE IF ~InCatalog(RequestedAgentId(r.params.v))
            THEN err(-32602, <<"Agent not found: ">> \o RequestedAgentId(r.params.v), None)
        ELSE IF ~OwnOutcome(t).ok
            THEN err(-32603, <<"Internal error: Gemini API processing failed">>,
                     Some([details |-> OwnOutcome(t).e]))
        ELSE ok([agent_id |-> RequestedAgentId(r.params.v),
                 reply_text |-> OwnOutcome(t).v.reply_text,
                 metadata |->
                    [model |-> CatalogModel(RequestedAgentId(r.params.v)),
                     tokens_used |-> IF OwnOutcome(t).v.tokens_used.some
                                     THEN JNum(OwnOutcome(t).v.tokens_used.v) ELSE JNull,
                     processing_time_ms |->
                        IF Resp(t).result.some
                        THEN Resp(t).result.v.metadata.processing_time_ms ELSE 0,
                     confidence |-> "0.95"]])

Running(t) ==
    tasks[t].pc \in {"handle_jsonrpc", "route", "handle_list_agents",
                     "handle_process_text", "find_agent", "call_provider"}

\* C17: with requests in flight concurrently and interleaved in any order,
\* the response to each request is the response it gets when served alone
\* (a function of its envelope, the catalog, the provider selected at
\* startup and its own provider call's outcome); every step changes the
\* state of one request only, no request's next step waits for another
\* request, a new request is accepted whatever the others are doing, and
\* no request changes the provider selection or the environment.
C17_RequestsIndependent ==
    /\ [](\A t \in Tasks :
            /\ Responded(t) => Resp(t) = AloneResponse(t)
            /\ Running(t) => ENABLED HandlerStep(t)
            /\ (phase = "serving" /\ tasks[t].pc = "idle") => ENABLED ReceiveConcurrent(t))
    /\ [][\A t, u \in Tasks :
            (t # u /\ tasks'[t] # tasks[t]) => tasks'[u] = tasks[u]]_vars
    /\ [][phase = "serving" =>
            (state' = state /\ env' = env /\ phase' = phase)]_vars

\* two process_text requests in flight together have both been answered,
\* one with a result and one with the unknown-agent error
C17_Witness ==
    \E t, u \in Tasks :
        /\ t # u
        /\ Responded(t)
        /\ Responded(u)
        /\ Called(t, "process_with_gemini")
        /\ Resp(t).result.some
        /\ Called(u, "find_agent_by_id")
        /\ IsError(Resp(u), -32602)

\* the history and the user text as the request's params hold them
RawHistory(p) ==
    IF p.t = "obj"
    THEN IF HasKey(p, "conversation_history") /\ p.o["conversation_history"].t = "arr"
         THEN p.o["conversation_history"].a ELSE <<>>
    ELSE IF Len(p.a) >= 3 /\ p.a[3].t = "arr" THEN p.a[3].a ELSE <<>>

RawUserText(p) == IF p.t = "obj" THEN p.o["user_text"].s ELSE p.a[2].s

CatalogPrompt(id) ==
    get_agents[CHOOSE i \in DOMAIN get_agents : get_agents[i].id = id].system_prompt

\* C18: the message list of every Primary call is one system message with
\* the agent's system prompt, then every history message of the request in
\* the caller's order with its role and content unchanged, whatever the
\* role, then one user message with the request's user_text; without a
\* history it is the system message and the user message.
C18_PrimaryMessageList ==
    \A t \in Tasks : \A c \in CallsOf(t) :
        c.provider = "groq" =>
            LET p == Req(t).params.v
                h == RawHistory(p)
                m == c.body.messages
            IN  /\ Len(m) = Len(h) + 2
                /\ m[1] = [role |-> <<"system">>,
                           content |-> CatalogPrompt(RequestedAgentId(p))]
                /\ \A i \in DOMAIN h :
                      /\ m[i + 1].role = h[i].o["role"].s
                      /\ m[i + 1].content = h[i].o["content"].s
                /\ m[Len(m)] = [role |-> <<"user">>, content |-> RawUserText(p)]

\* a Primary call for a request whose two-message history holds a message
\* of role system
C18_Witness ==
    \E t \in Tasks :
        /\ Len(tasks[t].calls) = 1
        /\ tasks[t].calls[1].provider = "groq"
        /\ Len(RawHistory(Req(t).params.v)) = 2
        /\ RawHistory(Req(t).params.v)[1] = Msg(<<"system">>, <<"injected note">>)
        /\ Len(tasks[t].calls[1].body.messages) = 4

\* the history messages the Fallback provider keeps, relabelled
FallbackKept(h) ==
    LET kept == SelectSeq(h, LAMBDA j : j.o["role"].s \in {<<"user">>, <<"assistant">>})
    IN  [i \in DOMAIN kept |->
            [role |-> IF kept[i].o["role"].s = <<"assistant">>
                      THEN <<"model">> ELSE <<"user">>,
             parts |-> <<[text |-> kept[i].o["content"].s]>>]]

\* C19: the content list of every Fallback call is the request's history
\* with assistant relabelled to model, user kept as user and every message
\* of another role left out, in the caller's order, followed by one user
\* entry with the request's user_text; the system prompt is the
\* system-instruction field and no entry of the content list; a history
\* with other roles does not keep the request from its provider call.
C19_FallbackContentList ==
    \A t \in Tasks :
        /\ \A c \in CallsOf(t) :
              c.provider = "gemini" =>
                  LET p == Req(t).params.v
                      prompt == CatalogPrompt(RequestedAgentId(p))
                  IN  /\ c.body.contents =
                            FallbackKept(RawHistory(p))
                            \o <<[role |-> <<"user">>,
                                  parts |-> <<[text |-> RawUserText(p)]>>]>>
                      /\ c.body.system_instruction = Some([parts |-> <<[text |-> prompt]>>])
                      /\ \A i \in DOMAIN c.body.contents :
                            /\ c.body.contents[i].role \in {<<"user">>, <<"model">>}
                            /\ \A k \in DOMAIN c.body.contents[i].parts :
                                  c.body.contents[i].parts[k].text # prompt
        /\ (Responded(t) /\ ValidProcessText(t) /\ ~state.v.use_groq) =>
              Len(tasks[t].calls) = 1

\* a Fallback call for a request whose history is a system message followed
\* by an assistant message
C19_Witness ==
    \E t \in Tasks :
        /\ Len(tasks[t].calls) = 1
        /\ tasks[t].calls[1].provider = "gemini"
        /\ RawHistory(Req(t).params.v) =
              <<Msg(<<"system">>, <<"injected note">>),
                Msg(<<"assistant">>, <<"earlier answer">>)>>
        /\ Len(tasks[t].calls[1].body.contents) = 2

IsPrefix(a, b) == Len(a) <= Len(b) /\ SubSeq(b, 1, Len(a)) = a

ProcessTextOrder ==
    <<"validate_version", "route", "handle_process_text", "find_agent_by_id",
      "process_with_gemini">>

\* C20: the checks run in the order version, method, params decoding, agent
\* lookup, provider call, and the response reports the first that fails: a
\* wrong version gets -32600 before the method is looked at, an unknown
\* method included; undecodable params get -32602 without an agent lookup;
\* an unknown agent gets -32602 without a provider call; -32603 is only
\* reported for a request that passed the four earlier checks.
C20_CheckOrder ==
    \A t \in Tasks :
        /\ \/ IsPrefix(tasks[t].trace, ProcessTextOrder)
           \/ IsPrefix(tasks[t].trace, <<"validate_version", "route", "handle_list_agents">>)
        /\ Responded(t) =>
              /\ Req(t).jsonrpc # <<"2.0">> =>
                    /\ IsError(Resp(t), -32600)
                    /\ tasks[t].trace = <<"validate_version">>
              /\ (Req(t).jsonrpc = <<"2.0">> /\ Req(t).method \notin KnownMethods) =>
                    /\ IsError(Resp(t), -32601)
                    /\ tasks[t].trace = <<"validate_version", "route">>
              /\ (Req(t).jsonrpc = <<"2.0">> /\ Req(t).method = <<"process_text">>
                     /\ ~Decodable(t)) =>
                    /\ IsError(Resp(t), -32602)
                    /\ ~Called(t, "find_agent_by_id")
                    /\ tasks[t].calls = <<>>
              /\ (Req(t).jsonrpc = <<"2.0">> /\ Req(t).method = <<"process_text">>
                     /\ Decodable(t) /\ ~InCatalog(RequestedAgentId(Req(t).params.v))) =>
                    /\ IsError(Resp(t), -32602)
                    /\ tasks[t].trace = SubSeq(ProcessTextOrder, 1, 4)
                    /\ tasks[t].calls = <<>>
              /\ IsError(Resp(t), -32603) =>
                    /\ ValidProcessText(t)
                    /\ tasks[t].trace = ProcessTextOrder

\* a request with version "1.0" and the unknown method mint_nft has been
\* answered -32600
C20_Witness ==
    \E t \in Tasks :
        /\ Responded(t)
        /\ Req(t).jsonrpc = <<"1.0">>
        /\ Req(t).method = <<"mint_nft">>
        /\ IsError(Resp(t), -32600)

====
